---- MODULE Spec2Model ----
(***************************************************************************)
(* A model of FormattingEvaluatorModule                                    *)
(* (src/parser/formatting-evaluator-module.ts): the configuration gate,    *)
(* the multiplier table built by the constructor, the symbol counter, the  *)
(* tag classifier and the transform loop that merges the formatting reward *)
(* into every comment's score.                                             *)
(*                                                                         *)
(* Conventions.  A JavaScript value that may be undefined is a sequence of *)
(* length 0 (undefined / null) or 1 (the value).  A text is a sequence of  *)
(* one-character strings.  Decimal weights are integers of one fixed unit, *)
(* so sums and products are exact, like decimal.js on such values.         *)
(***************************************************************************)
EXTENDS Integers, Sequences, FiniteSets, TLC

VARIABLES
    config,       \* this._configuration
    multipliers,  \* this._multipliers
    result,       \* the Result handed to transform: key -> record
    pc,           \* "idle" | "running" | "returned" | "thrown"
    ki, ci,       \* position of transform's two loops (key index, comment index)
    pending,      \* positions still to evaluate when the order is left open
    error,        \* the error that left transform: "none" | "DomError" | "TypeError"
    ret,          \* what the last transform call returned (undefined or the Result)
    log,          \* logger.error diagnostics, in emission order
    warned,       \* console.warn has been called
    enabledRet,   \* the last value the enabled getter returned
    calls,        \* number of transform calls started
    returns,      \* number of transform calls that returned
    visits,       \* evaluations of each comment position in the current call
    orig,         \* the Result as first supplied (history)
    pre,          \* the Result at the start of the current call (history)
    cwSymbols,    \* _countWords: the symbols argument
    cwText,       \* _countWords: the text argument
    cwCounts      \* _countWords: the returned counts (undefined before the call)

vars == <<config, multipliers, result, pc, ki, ci, pending, error, ret, log,
          warned, enabledRet, calls, returns, visits, orig, pre,
          cwSymbols, cwText, cwCounts>>

(***************************************************************************)
(* Bounds of the model.                                                    *)
(***************************************************************************)
MaxComments == 2
MaxCalls == 2
MaxLen == 3

Undefined == << >>
Some(v) == <<v>>

(***************************************************************************)
(* Comment types: flags combined by bitwise or.                            *)
(***************************************************************************)
RECURSIVE BitOr(_, _)
BitOr(a, b) ==
    IF a = 0 THEN b
    ELSE IF b = 0 THEN a
    ELSE (IF (a % 2 = 1) \/ (b % 2 = 1) THEN 1 ELSE 0) + 2 * BitOr(a \div 2, b \div 2)

commentEnum ==
    [f \in {"ISSUE", "REVIEW", "ISSUER", "ASSIGNEE"} |->
        CASE f = "ISSUE" -> 1
          [] f = "REVIEW" -> 2
          [] f = "ISSUER" -> 4
          [] f = "ASSIGNEE" -> 8]

\* A CommentType key such as ISSUE_ISSUER is held as its parts <<"ISSUE", "ISSUER">>.
RECURSIVE _getEnumValue(_)
_getEnumValue(key) ==
    IF key = << >> THEN 0
    ELSE BitOr(_getEnumValue(SubSeq(key, 1, Len(key) - 1)), commentEnum[key[Len(key)]])

RECURSIVE SelectMask(_)
SelectMask(select) ==
    IF select = << >> THEN 0
    ELSE BitOr(_getEnumValue(select[Len(select)]), SelectMask(SubSeq(select, 1, Len(select) - 1)))

(***************************************************************************)
(* The constructor: the multiplier table, keyed by combined mask.          *)
(***************************************************************************)
RECURSIVE ReduceMultipliers(_)
ReduceMultipliers(ms) ==
    IF ms = << >> THEN << >>
    ELSE LET acc == ReduceMultipliers(SubSeq(ms, 1, Len(ms) - 1))
             curr == ms[Len(ms)]
             k == SelectMask(curr.select)
         IN [m \in (DOMAIN acc) \cup {k} |->
                IF m = k
                THEN [symbols |-> curr.symbols,
                      formattingMultiplier |-> curr.formattingMultiplier,
                      scores |-> curr.scores]
                ELSE acc[m]]

Constructor(cfg) ==
    IF cfg # Undefined THEN ReduceMultipliers(cfg[1].multipliers) ELSE << >>

(***************************************************************************)
(* The symbol counter.  A pattern is a regular expression without          *)
(* quantifiers: a sequence of literal characters and "." wildcards.        *)
(***************************************************************************)
WhiteSpace == {" ", "\n"}

RECURSIVE TrimStart(_)
TrimStart(text) ==
    IF text # << >> /\ Head(text) \in WhiteSpace THEN TrimStart(Tail(text)) ELSE text

RECURSIVE TrimEnd(_)
TrimEnd(text) ==
    IF text # << >> /\ text[Len(text)] \in WhiteSpace
    THEN TrimEnd(SubSeq(text, 1, Len(text) - 1))
    ELSE text

Trim(text) == TrimEnd(TrimStart(text))

\* The regular expression matches the text at index i.
MatchesAt(regex, text, i) ==
    /\ i + Len(regex) - 1 <= Len(text)
    /\ \A j \in 1..Len(regex) :
          \/ regex[j] = text[i + j - 1]
          \/ regex[j] = "." /\ text[i + j - 1] # "\n"

\* GlobalMatch resuming one character after the start of a match
RECURSIVE GlobalMatchOverlapping(_, _, _)
GlobalMatchOverlapping(regex, text, i) ==
    IF i > Len(text) THEN 0
    ELSE IF MatchesAt(regex, text, i)
         THEN 1 + GlobalMatchOverlapping(regex, text, i + 1)
         ELSE GlobalMatchOverlapping(regex, text, i + 1)

\* String.prototype.match with the "g" flag: scan from lastIndex i, resume
\* after each match; the result is the list of matches, here by its length.
RECURSIVE GlobalMatch(_, _, _)
GlobalMatch(regex, text, i) ==
    IF i > Len(text) THEN 0
    ELSE IF MatchesAt(regex, text, i)
         THEN 1 + GlobalMatch(regex, text, i + Len(regex))
         ELSE GlobalMatch(regex, text, i + 1)

\* match?.length || 1 : null (no match) and length 0 both give 1.
MatchLengthOr1(n) == IF n = 0 THEN 1 ELSE n

_countWords(symbols, text) ==
    [regex \in DOMAIN symbols |->
        [count |-> MatchLengthOr1(GlobalMatch(regex, Trim(text), 1)),
         multiplier |-> symbols[regex]]]

(***************************************************************************)
(* Rendering.  A comment's content is markdown source held as its blocks;  *)
(* a block is a plain paragraph, a paragraph in strong emphasis or a       *)
(* bullet item, with its text.  Render gives the body of the document: its  *)
(* tag name, its text content and its descendant elements in document      *)
(* order, each with tag name and text content; or no body at all.          *)
(***************************************************************************)
RECURSIVE ItemRun(_)
\* the leading run of bullet items of a block sequence
ItemRun(blocks) ==
    IF blocks # << >> /\ Head(blocks).kind = "item"
    THEN <<Head(blocks)>> \o ItemRun(Tail(blocks))
    ELSE << >>

RECURSIVE ListText(_)
\* textContent of <ul>\n<li>t1</li>\n<li>t2</li>\n</ul>
ListText(items) ==
    IF items = << >> THEN <<"\n">>
    ELSE <<"\n">> \o Head(items).text \o ListText(Tail(items))

RECURSIVE ListItems(_)
ListItems(items) ==
    IF items = << >> THEN << >>
    ELSE <<[tagName |-> "LI", textContent |-> Head(items).text]>> \o ListItems(Tail(items))

RECURSIVE Elements(_)
Elements(blocks) ==
    IF blocks = << >> THEN << >>
    ELSE LET b == Head(blocks) IN
         CASE b.kind = "para" ->
                <<[tagName |-> "P", textContent |-> b.text]>> \o Elements(Tail(blocks))
           [] b.kind = "strong" ->
                <<[tagName |-> "P", textContent |-> b.text],
                  [tagName |-> "STRONG", textContent |-> b.text]>> \o Elements(Tail(blocks))
           [] b.kind = "item" ->
                LET run == ItemRun(blocks) IN
                <<[tagName |-> "UL", textContent |-> ListText(run)]>>
                    \o ListItems(run)
                    \o Elements(SubSeq(blocks, Len(run) + 1, Len(blocks)))

RECURSIVE BodyText(_)
\* textContent of the body: every block's text, each followed by a newline
BodyText(blocks) ==
    IF blocks = << >> THEN << >>
    ELSE IF Head(blocks).kind = "item"
    THEN LET run == ItemRun(blocks) IN
         ListText(run) \o <<"\n">> \o BodyText(SubSeq(blocks, Len(run) + 1, Len(blocks)))
    ELSE Head(blocks).text \o <<"\n">> \o BodyText(Tail(blocks))

\* this._md.render, then new JSDOM(html).window.document.body: undefined, or
\* the body element
Render(content) ==
    IF content.noBody THEN Undefined
    ELSE Some([tagName |-> "BODY",
               textContent |-> BodyText(content.blocks),
               descendants |-> Elements(content.blocks)])

\* htmlElement.getElementsByTagName("*"): the descendants, in document order
getElementsByTagName(htmlElement) == htmlElement.descendants

ToLowerCase(tagName) ==
    CASE tagName = "P" -> "p"
      [] tagName = "STRONG" -> "strong"
      [] tagName = "UL" -> "ul"
      [] tagName = "LI" -> "li"
      [] tagName = "BODY" -> "body"

(***************************************************************************)
(* The tag classifier.                                                     *)
(***************************************************************************)
\* ScoreOfTag testing scores[tagName] for truthiness: a score of 0 is not found
ScoreOfTagTruthy(scores, tagName) ==
    IF scores.kind = "object" /\ tagName \in DOMAIN scores.map /\ scores.map[tagName] # 0
    THEN Some(scores.map[tagName])
    ELSE Undefined

\* scores[tagName]: undefined when scores has no such property.  A scores
\* value that is not an object (a string) has no tag-named property.
ScoreOfTag(scores, tagName) ==
    IF scores.kind = "object" /\ tagName \in DOMAIN scores.map
    THEN Some(scores.map[tagName])
    ELSE Undefined

\* ClassifyElements keeping the first element of each tag name
RECURSIVE ClassifyElementsKeepingFirst(_, _)
ClassifyElementsKeepingFirst(elements, commentType) ==
    IF elements = << >>
    THEN [threw |-> FALSE, tagWordCount |-> << >>, logged |-> << >>]
    ELSE IF commentType \notin DOMAIN multipliers
    THEN [threw |-> TRUE, tagWordCount |-> << >>, logged |-> << >>]
    ELSE LET before == ClassifyElementsKeepingFirst(SubSeq(elements, 1, Len(elements) - 1),
                                                    commentType)
             element == elements[Len(elements)]
             tagName == ToLowerCase(element.tagName)
             wordCount == _countWords(multipliers[commentType].symbols, element.textContent)
             found == IF multipliers[commentType].scores.kind = "object"
                         /\ tagName \in DOMAIN multipliers[commentType].scores.map
                      THEN Some(multipliers[commentType].scores.map[tagName])
                      ELSE Undefined
             score == IF found # Undefined THEN found[1] ELSE 1
         IN [threw |-> FALSE,
             tagWordCount |->
                [t \in (DOMAIN before.tagWordCount) \cup {tagName} |->
                    IF t \in DOMAIN before.tagWordCount
                    THEN before.tagWordCount[t]
                    ELSE [symbols |-> wordCount, score |-> score]],
             logged |->
                IF found # Undefined THEN before.logged
                ELSE Append(before.logged, [commentType |-> commentType, tagName |-> tagName])]

\* The loop over the elements, the last one processed last.  threw: the read
\* of this._multipliers[commentType].symbols of an undefined multiplier.
RECURSIVE ClassifyElements(_, _)
ClassifyElements(elements, commentType) ==
    IF elements = << >>
    THEN [threw |-> FALSE, tagWordCount |-> << >>, logged |-> << >>]
    ELSE IF commentType \notin DOMAIN multipliers
    THEN [threw |-> TRUE, tagWordCount |-> << >>, logged |-> << >>]
    ELSE LET before == ClassifyElements(SubSeq(elements, 1, Len(elements) - 1), commentType)
             element == elements[Len(elements)]
             tagName == ToLowerCase(element.tagName)
             wordCount == _countWords(multipliers[commentType].symbols, element.textContent)
             found == ScoreOfTag(multipliers[commentType].scores, tagName)
             score == IF found # Undefined THEN found[1] ELSE 1
         IN [threw |-> FALSE,
             tagWordCount |->
                [t \in (DOMAIN before.tagWordCount) \cup {tagName} |->
                    IF t = tagName
                    THEN [symbols |-> wordCount, score |-> score]
                    ELSE before.tagWordCount[t]],
             logged |->
                IF found # Undefined THEN before.logged
                ELSE Append(before.logged, [commentType |-> commentType, tagName |-> tagName])]

classifyTagsWithWordCount(htmlElement, commentType) ==
    ClassifyElements(getElementsByTagName(htmlElement), commentType)

\* error: "none", "DomError" (no body) or "TypeError" (thrown by the classifier)
_getFormattingScore(comment) ==
    LET body == Render(comment.content) IN
    IF body # Undefined
    THEN LET res == classifyTagsWithWordCount(body[1], comment.type) IN
         [error |-> IF res.threw THEN "TypeError" ELSE "none",
          formatting |-> res.tagWordCount,
          logged |-> res.logged]
    ELSE [error |-> "DomError", formatting |-> << >>, logged |-> << >>]

(***************************************************************************)
(* The reward aggregation of transform.                                    *)
(***************************************************************************)
RECURSIVE SumOver(_, _)
\* the sum of f[x] over the x of the finite set S
SumOver(f, S) ==
    IF S = {} THEN 0
    ELSE LET x == CHOOSE y \in S : TRUE IN f[x] + SumOver(f, S \ {x})

MultiplierFactor(commentType) ==
    IF commentType \in DOMAIN multipliers
    THEN multipliers[commentType]
    ELSE [wordValue |-> 0, formattingMultiplier |-> 0]

\* FormattingTotal leaving the tag score out of the product
FormattingTotalWithoutTagScore(formatting, multiplierFactor) ==
    SumOver([t \in DOMAIN formatting |->
                SumOver([symbol \in DOMAIN formatting[t].symbols |->
                            formatting[t].symbols[symbol].count
                              * formatting[t].symbols[symbol].multiplier
                              * multiplierFactor.formattingMultiplier],
                        DOMAIN formatting[t].symbols)],
            DOMAIN formatting)

FormattingTotal(formatting, multiplierFactor) ==
    SumOver([t \in DOMAIN formatting |->
                SumOver([symbol \in DOMAIN formatting[t].symbols |->
                            formatting[t].symbols[symbol].count
                              * formatting[t].symbols[symbol].multiplier
                              * multiplierFactor.formattingMultiplier
                              * formatting[t].score],
                        DOMAIN formatting[t].symbols)],
            DOMAIN formatting)

NoScore == [reward |-> Undefined, formatting |-> Undefined, relevance |-> Undefined]

\* NewScore leaving alone a score that already holds this formatting
NewScoreIdempotent(comment, formatting) ==
    LET multiplierFactor == MultiplierFactor(comment.type)
        formattingTotal == FormattingTotal(formatting, multiplierFactor)
        old == IF comment.score # Undefined THEN comment.score[1] ELSE NoScore
        truthy == old.reward # Undefined /\ old.reward[1] # 0
        new == Some([content |-> formatting,
                     formattingMultiplier |-> multiplierFactor.formattingMultiplier])
    IN IF old.formatting = new THEN comment.score
       ELSE Some([old EXCEPT
                    !.formatting = new,
                    !.reward = Some(IF truthy THEN formattingTotal + old.reward[1]
                                    ELSE formattingTotal)])

\* NewScore building the score without spreading the old one
NewScoreWithoutSpread(comment, formatting) ==
    LET multiplierFactor == MultiplierFactor(comment.type)
        formattingTotal == FormattingTotal(formatting, multiplierFactor)
        old == IF comment.score # Undefined THEN comment.score[1] ELSE NoScore
        truthy == old.reward # Undefined /\ old.reward[1] # 0
    IN Some([NoScore EXCEPT
                !.formatting = Some([content |-> formatting,
                                     formattingMultiplier |-> multiplierFactor.formattingMultiplier]),
                !.reward = Some(IF truthy THEN formattingTotal + old.reward[1]
                                ELSE formattingTotal)])

\* { ...comment.score, formatting: {...}, reward: ... }
NewScore(comment, formatting) ==
    LET multiplierFactor == MultiplierFactor(comment.type)
        formattingTotal == FormattingTotal(formatting, multiplierFactor)
        old == IF comment.score # Undefined THEN comment.score[1] ELSE NoScore
        truthy == old.reward # Undefined /\ old.reward[1] # 0
    IN Some([old EXCEPT
                !.formatting = Some([content |-> formatting,
                                     formattingMultiplier |-> multiplierFactor.formattingMultiplier]),
                !.reward = Some(IF truthy THEN formattingTotal + old.reward[1]
                                ELSE formattingTotal)])

(***************************************************************************)
(* The configuration gate.                                                 *)
(***************************************************************************)
\* Value.Check(formattingEvaluatorConfigurationType, cfg)
ValueCheck(cfg) ==
    /\ cfg # Undefined
    /\ \A i \in DOMAIN cfg[1].multipliers : cfg[1].multipliers[i].scores.kind = "object"

(***************************************************************************)
(* The inputs: configurations, comments and Results.                       *)
(***************************************************************************)
SymbolsAB == (<<"a">> :> 1) @@ (<<"b">> :> 2)
SymbolsWide == (<<"a", "a">> :> 3) @@ (<<".">> :> 1) @@ (<<" ">> :> 2)
SymbolSets == {SymbolsAB, SymbolsWide, (<<"a", "b">> :> 5)}

ScoresObject == [kind |-> "object", map |-> [p |-> 1, ul |-> 0, li |-> 3]]
ScoresString == [kind |-> "string", map |-> << >>]

MultipliersOf(scores) ==
    <<[select |-> << <<"ISSUE", "ISSUER">> >>,
       formattingMultiplier |-> 2, scores |-> scores, symbols |-> SymbolsAB],
      [select |-> << <<"REVIEW", "ISSUER">>, <<"REVIEW", "ASSIGNEE">> >>,
       formattingMultiplier |-> 3, scores |-> ScoresObject, symbols |-> SymbolsWide]>>

ValidConfig == Some([multipliers |-> MultipliersOf(ScoresObject)])
BadShapeConfig == Some([multipliers |-> MultipliersOf(ScoresString)])
Configs == {Undefined, ValidConfig, BadShapeConfig}

\* ISSUE | ISSUER, which ValidConfig selects, and REVIEW | ASSIGNEE, which no
\* configuration selects on its own.
CommentTypes == {BitOr(commentEnum["ISSUE"], commentEnum["ISSUER"]),
                 BitOr(commentEnum["REVIEW"], commentEnum["ASSIGNEE"])}

Para(text) == [kind |-> "para", text |-> text]
Strong(text) == [kind |-> "strong", text |-> text]
Item(text) == [kind |-> "item", text |-> text]

Contents ==
    {[noBody |-> FALSE, blocks |-> << >>],
     [noBody |-> FALSE,
      blocks |-> <<Strong(<<"a", "b", "a">>), Para(<<"b">>), Item(<<"b", "b">>), Item(<<"a">>)>>],
     [noBody |-> TRUE, blocks |-> << >>]}

\* no score yet, or a score left by earlier stages of the pipeline
InitialScores ==
    {Undefined,
     Some([reward |-> Some(3),
           formatting |-> Some([content |-> << >>, formattingMultiplier |-> 9]),
           relevance |-> Some(7)])}

Comments == [type : CommentTypes, content : Contents, score : InitialScores]

KeyOrder == <<"u1", "u2">>
Keys == {KeyOrder[i] : i \in DOMAIN KeyOrder}

\* the records holding n comments; with none, comments may also be undefined
Records(n) ==
    {[comments |-> Some(cs)] : cs \in [1..n -> Comments]}
        \cup (IF n = 0 THEN {[comments |-> Undefined]} ELSE {})

\* the Result whose two keys hold the records r1 and r2
ResultOf(r1, r2) == [k \in Keys |-> IF k = KeyOrder[1] THEN r1 ELSE r2]

Texts == UNION {[1..n -> {"a", "b", " "}] : n \in 0..MaxLen}

\* currentElement.comments || []
CommentsOf(r, key) ==
    IF r[key].comments # Undefined THEN r[key].comments[1] ELSE << >>

Positions(r) == UNION {{<<k, i>> : i \in 1..Len(CommentsOf(r, k))} : k \in Keys}

CommentAt(r, pos) == CommentsOf(r, pos[1])[pos[2]]

(***************************************************************************)
(* The state after construction, before any call.                          *)
(***************************************************************************)
InitModule(cfg, r) ==
    /\ config = cfg
    /\ multipliers = Constructor(cfg)
    /\ result = r
    /\ pc = "idle"
    /\ ki = 0
    /\ ci = 0
    /\ pending = {}
    /\ error = "none"
    /\ ret = Undefined
    /\ log = << >>
    /\ warned = FALSE
    /\ enabledRet = Undefined
    /\ calls = 0
    /\ returns = 0
    /\ visits = [p \in Positions(r) |-> 0]
    /\ orig = r
    /\ pre = r

\* the module constructed with one of the configurations cfgs, and a Result
InitOver(cfgs) ==
    /\ \E cfg \in cfgs, n1 \in 0..MaxComments :
          \E n2 \in 0..(MaxComments - n1) :
             \E r1 \in Records(n1), r2 \in Records(n2) :
                InitModule(cfg, ResultOf(r1, r2))
    /\ cwSymbols = << >>
    /\ cwText = << >>
    /\ cwCounts = Undefined

Init == InitOver(Configs)

\* the module constructed with a configuration object, which has multipliers
InitConfigured == InitOver(Configs \ {Undefined})

(***************************************************************************)
(* get enabled()                                                           *)
(***************************************************************************)
\* Enabled returning true whatever the check says
EnabledAlwaysTrue ==
    /\ pc # "running"
    /\ enabledRet' = Some(TRUE)
    /\ UNCHANGED <<config, multipliers, result, pc, ki, ci, pending, error, ret, log,
                   warned, calls, returns, visits, orig, pre, cwSymbols, cwText, cwCounts>>

Enabled ==
    /\ pc # "running"
    /\ enabledRet' = Some(ValueCheck(config))
    /\ warned' = (warned \/ ~ValueCheck(config))
    /\ UNCHANGED <<config, multipliers, result, pc, ki, ci, pending, error, ret, log,
                   calls, returns, visits, orig, pre, cwSymbols, cwText, cwCounts>>

(***************************************************************************)
(* transform(data, result)                                                 *)
(***************************************************************************)
\* the Result with the score of the comment at pos replaced
WithScore(r, pos, score) ==
    [r EXCEPT ![pos[1]].comments = Some([@[1] EXCEPT ![pos[2]].score = score])]

\* Evaluated with one score object shared by the comments of a record
EvaluatedSharedScore(pos) ==
    LET comment == CommentAt(result, pos)
        fs == _getFormattingScore(comment)
        score == NewScore(comment, fs.formatting)
    IN /\ fs.error = "none"
       /\ result' = [result EXCEPT ![pos[1]].comments =
                        Some([i \in DOMAIN @[1] |-> [@[1][i] EXCEPT !.score = score]])]
       /\ log' = log \o fs.logged
       /\ visits' = [visits EXCEPT ![pos] = @ + 1]

\* lines 56-81 for the comment at pos, when nothing throws
Evaluated(pos) ==
    LET comment == CommentAt(result, pos)
        fs == _getFormattingScore(comment)
    IN /\ fs.error = "none"
       /\ result' = WithScore(result, pos, NewScore(comment, fs.formatting))
       /\ log' = log \o fs.logged
       /\ visits' = [visits EXCEPT ![pos] = @ + 1]

\* lines 56-58 for the comment at pos, when _getFormattingScore throws
Thrown(pos) ==
    LET fs == _getFormattingScore(CommentAt(result, pos))
    IN /\ fs.error # "none"
       /\ pc' = "thrown"
       /\ error' = fs.error
       /\ log' = log \o fs.logged

Called ==
    /\ pc # "running"
    /\ calls < MaxCalls
    /\ calls' = calls + 1
    /\ pc' = "running"
    /\ error' = "none"
    /\ ret' = Undefined
    /\ pre' = result
    /\ visits' = [p \in Positions(result) |-> 0]

Start ==
    /\ Called
    /\ ki' = 1
    /\ ci' = 1
    /\ UNCHANGED <<config, multipliers, result, pending, log, warned, enabledRet,
                   returns, orig, cwSymbols, cwText, cwCounts>>

InLoop ==
    /\ pc = "running"
    /\ ki \in DOMAIN KeyOrder

ScoreComment ==
    /\ InLoop
    /\ ci <= Len(CommentsOf(result, KeyOrder[ki]))
    /\ Evaluated(<<KeyOrder[ki], ci>>)
    /\ ci' = ci + 1
    /\ UNCHANGED <<config, multipliers, pc, ki, pending, error, ret, warned, enabledRet,
                   calls, returns, orig, pre, cwSymbols, cwText, cwCounts>>

\* ThrowFromComment restoring the scores the call started with
ThrowFromCommentRollingBack ==
    /\ InLoop
    /\ ci <= Len(CommentsOf(result, KeyOrder[ki]))
    /\ Thrown(<<KeyOrder[ki], ci>>)
    /\ result' = pre
    /\ UNCHANGED <<config, multipliers, ki, ci, pending, ret, warned, enabledRet,
                   calls, returns, visits, orig, pre, cwSymbols, cwText, cwCounts>>

ThrowFromComment ==
    /\ InLoop
    /\ ci <= Len(CommentsOf(result, KeyOrder[ki]))
    /\ Thrown(<<KeyOrder[ki], ci>>)
    /\ UNCHANGED <<config, multipliers, result, ki, ci, pending, ret, warned, enabledRet,
                   calls, returns, visits, orig, pre, cwSymbols, cwText, cwCounts>>

NextKey ==
    /\ InLoop
    /\ ci > Len(CommentsOf(result, KeyOrder[ki]))
    /\ ki' = ki + 1
    /\ ci' = 1
    /\ UNCHANGED <<config, multipliers, result, pc, pending, error, ret, log, warned,
                   enabledRet, calls, returns, visits, orig, pre,
                   cwSymbols, cwText, cwCounts>>

Return ==
    /\ pc = "running"
    /\ ki > Len(KeyOrder)
    /\ pc' = "returned"
    /\ ret' = Some(result)
    /\ returns' = returns + 1
    /\ UNCHANGED <<config, multipliers, result, ki, ci, pending, error, log, warned,
                   enabledRet, calls, visits, orig, pre, cwSymbols, cwText, cwCounts>>

Next ==
    \/ Enabled
    \/ Start
    \/ ScoreComment
    \/ ThrowFromComment
    \/ NextKey
    \/ Return

Spec == Init /\ [][Next]_vars

SpecConfigured == InitConfigured /\ [][Next]_vars

(***************************************************************************)
(* transform with the order of the per-comment evaluations left open: the  *)
(* loop body of transform applied to the comments in any order.            *)
(***************************************************************************)
StartAnyOrder ==
    /\ pc = "idle"
    /\ Called
    /\ pending' = Positions(result)
    /\ UNCHANGED <<config, multipliers, result, ki, ci, log, warned, enabledRet,
                   returns, orig, cwSymbols, cwText, cwCounts>>

ScoreAnyOrder ==
    /\ pc = "running"
    /\ \E pos \in pending :
          /\ Evaluated(pos)
          /\ pending' = pending \ {pos}
    /\ UNCHANGED <<config, multipliers, pc, ki, ci, error, ret, warned, enabledRet,
                   calls, returns, orig, pre, cwSymbols, cwText, cwCounts>>

ThrowAnyOrder ==
    /\ pc = "running"
    /\ \E pos \in pending : Thrown(pos)
    /\ UNCHANGED <<config, multipliers, result, ki, ci, pending, ret, warned, enabledRet,
                   calls, returns, visits, orig, pre, cwSymbols, cwText, cwCounts>>

ReturnAnyOrder ==
    /\ pc = "running"
    /\ pending = {}
    /\ pc' = "returned"
    /\ ret' = Some(result)
    /\ returns' = returns + 1
    /\ UNCHANGED <<config, multipliers, result, ki, ci, pending, error, log, warned,
                   enabledRet, calls, visits, orig, pre, cwSymbols, cwText, cwCounts>>

NextAnyOrder ==
    \/ StartAnyOrder
    \/ ScoreAnyOrder
    \/ ThrowAnyOrder
    \/ ReturnAnyOrder

SpecAnyOrder == Init /\ [][NextAnyOrder]_vars

(***************************************************************************)
(* _countWords applied to a text and a set of symbols.                     *)
(***************************************************************************)
InitCount ==
    /\ InitModule(ValidConfig, [k \in Keys |-> [comments |-> Undefined]])
    /\ cwSymbols \in SymbolSets
    /\ cwText \in Texts
    /\ cwCounts = Undefined

CountWords ==
    /\ cwCounts = Undefined
    /\ cwCounts' = Some(_countWords(cwSymbols, cwText))
    /\ UNCHANGED <<config, multipliers, result, pc, ki, ci, pending, error, ret, log,
                   warned, enabledRet, calls, returns, visits, orig, pre,
                   cwSymbols, cwText>>

NextCount == CountWords

SpecCount == InitCount /\ [][NextCount]_vars

(***************************************************************************)
(* Properties.                                                             *)
(***************************************************************************)
ScoreAt(r, pos) == CommentAt(r, pos).score

\* the reward of a score, 0 when the score or its reward is absent
RewardOr0(score) ==
    IF score # Undefined /\ score[1].reward # Undefined THEN score[1].reward[1] ELSE 0

\* transform has written the score at pos at least once
Written(pos) == ScoreAt(result, pos) # ScoreAt(orig, pos)

HasMultiplier(pos) == CommentAt(orig, pos).type \in DOMAIN multipliers

\* the formatting multiplier the configuration gives a comment type, 0 without one
ConfiguredMultiplier(commentType) ==
    IF commentType \in DOMAIN multipliers
    THEN multipliers[commentType].formattingMultiplier
    ELSE 0

\* count x patternWeight x formattingMultiplier x tagScore, summed over every
\* tag entry and every symbol entry of a breakdown
BreakdownTotal(breakdown, formattingMultiplier) ==
    SumOver([t \in DOMAIN breakdown |->
                SumOver([sym \in DOMAIN breakdown[t].symbols |->
                            breakdown[t].symbols[sym].count * breakdown[t].symbols[sym].multiplier
                              * formattingMultiplier * breakdown[t].score],
                        DOMAIN breakdown[t].symbols)],
            DOMAIN breakdown)

\* the formattingTotal of the comment at pos, from the breakdown its score holds
RecordedTotal(pos) ==
    BreakdownTotal(ScoreAt(result, pos)[1].formatting[1].content,
                   ConfiguredMultiplier(CommentAt(result, pos).type))

HasRewardAndFormatting(score) ==
    /\ score # Undefined
    /\ score[1].reward # Undefined
    /\ score[1].formatting # Undefined

C2_RewardIsPriorPlusFormattingTotal ==
    (pc = "returned" /\ calls = 1) =>
        \A pos \in Positions(result) :
           /\ HasRewardAndFormatting(ScoreAt(result, pos))
           /\ ScoreAt(result, pos)[1].reward[1]
                 = RewardOr0(ScoreAt(orig, pos)) + RecordedTotal(pos)

C2_Witness ==
    /\ pc = "returned"
    /\ calls = 1
    /\ \E pos \in Positions(result) :
          /\ RewardOr0(ScoreAt(orig, pos)) = 3
          /\ RecordedTotal(pos) > 0
    /\ \E pos \in Positions(result) :
          /\ ScoreAt(orig, pos) = Undefined
          /\ RecordedTotal(pos) > 0

\* C3: when two transform calls in sequence have both returned, every
\* comment's reward is its prior reward plus twice its formattingTotal, and
\* the breakdown and total of the second run are those of the first.
C3_TwoRunsAddTwice ==
    (pc = "returned" /\ calls = 2 /\ returns = 2) =>
        \A pos \in Positions(result) :
           /\ HasRewardAndFormatting(ScoreAt(result, pos))
           /\ HasRewardAndFormatting(ScoreAt(pre, pos))
           /\ ScoreAt(result, pos)[1].formatting = ScoreAt(pre, pos)[1].formatting
           /\ ScoreAt(pre, pos)[1].reward[1]
                 = RewardOr0(ScoreAt(orig, pos)) + RecordedTotal(pos)
           /\ ScoreAt(result, pos)[1].reward[1]
                 = RewardOr0(ScoreAt(orig, pos)) + 2 * RecordedTotal(pos)

C3_Witness ==
    /\ pc = "returned"
    /\ calls = 2
    /\ returns = 2
    /\ \E pos \in Positions(result) :
          /\ RecordedTotal(pos) > 0
          /\ ScoreAt(result, pos)[1].reward[1] = 3 + 2 * RecordedTotal(pos)

\* C4 (as stated): transform raises no error for a comment whose type has no
\* multiplier, whatever its content: it never throws out of the classifier.
C4_MissingMultiplierRaisesNoError ==
    ~(/\ pc = "thrown"
      /\ error = "TypeError"
      /\ CommentAt(result, <<KeyOrder[ki], ci>>).type \notin DOMAIN multipliers)

\* the indices of text at which the pattern regex matches
Occurrences(regex, text) ==
    {i \in 1..Len(text) :
        /\ i + Len(regex) - 1 <= Len(text)
        /\ \A j \in 1..Len(regex) :
              regex[j] = text[i + j - 1] \/ (regex[j] = "." /\ text[i + j - 1] # "\n")}

\* the largest number of pairwise non-overlapping matches of regex in text
NonOverlappingMatches(regex, text) ==
    LET fits == {S \in SUBSET Occurrences(regex, text) :
                    \A i, j \in S : i < j => i + Len(regex) <= j}
    IN CHOOSE n \in 0..Len(text) :
          /\ \E S \in fits : Cardinality(S) = n
          /\ \A S \in fits : Cardinality(S) <= n

\* the text without its leading and trailing white space
Trimmed(text) ==
    LET inked == {i \in 1..Len(text) : text[i] \notin WhiteSpace} IN
    IF inked = {} THEN << >>
    ELSE SubSeq(text,
                CHOOSE i \in inked : \A j \in inked : i <= j,
                CHOOSE i \in inked : \A j \in inked : j <= i)

\* C5: the symbol counter returns exactly one entry per configured pattern;
\* its count is the number of non-overlapping matches in the trimmed text
\* when that is at least 1 and 1 when there is none, so never 0; its weight
\* is the configured weight.
C5_CountIsMatchesOrOne ==
    cwCounts # Undefined =>
        /\ DOMAIN cwCounts[1] = DOMAIN cwSymbols
        /\ \A regex \in DOMAIN cwSymbols :
              LET n == NonOverlappingMatches(regex, Trimmed(cwText)) IN
              /\ cwCounts[1][regex].count = (IF n >= 1 THEN n ELSE 1)
              /\ cwCounts[1][regex].count # 0
              /\ cwCounts[1][regex].multiplier = cwSymbols[regex]

C5_Witness ==
    /\ cwCounts # Undefined
    /\ \E regex \in DOMAIN cwSymbols :
          /\ NonOverlappingMatches(regex, Trimmed(cwText)) = 0
          /\ NonOverlappingMatches(regex, cwText) >= 1
          /\ cwCounts[1][regex].count = 1
    /\ \E regex \in DOMAIN cwSymbols : cwCounts[1][regex].count >= 2

\* the tag name has a score in the per-tag scores of the comment type
TagConfigured(commentType, tagName) ==
    /\ multipliers[commentType].scores.kind = "object"
    /\ tagName \in DOMAIN multipliers[commentType].scores.map

\* the elements under the body of a rendered content
DocumentElements(content) == Render(content)[1].descendants

DocumentTags(content) ==
    {ToLowerCase(DocumentElements(content)[i].tagName) : i \in DOMAIN DocumentElements(content)}

\* the number of elements of the comment at pos whose tag has no configured score
UnconfiguredElements(pos) ==
    LET c == CommentAt(orig, pos) IN
    Cardinality({i \in DOMAIN DocumentElements(c.content) :
                    ~TagConfigured(c.type, ToLowerCase(DocumentElements(c.content)[i].tagName))})

\* C6: an element whose tag name has no score in the multiplier's per-tag
\* scores gets a diagnostic and the score 1, and the remaining elements and
\* comments are still processed; a tag name with a configured score, 0
\* included, gets that score and no diagnostic.
C6_MissingTagScoreDefaultsToOne ==
    /\ \A i \in DOMAIN log : ~TagConfigured(log[i].commentType, log[i].tagName)
    /\ \A pos \in Positions(result) :
          (Written(pos) /\ HasMultiplier(pos)) =>
             LET c == CommentAt(result, pos)
                 breakdown == c.score[1].formatting[1].content
             IN /\ DOMAIN breakdown = DocumentTags(c.content)
                /\ \A tagName \in DOMAIN breakdown :
                      IF TagConfigured(c.type, tagName)
                      THEN breakdown[tagName].score
                              = multipliers[c.type].scores.map[tagName]
                      ELSE /\ breakdown[tagName].score = 1
                           /\ \E i \in DOMAIN log :
                                 log[i] = [commentType |-> c.type, tagName |-> tagName]
    /\ (pc = "returned" /\ calls = 1) =>
          Len(log) = SumOver([pos \in Positions(result) |-> UnconfiguredElements(pos)],
                             Positions(result))

C6_Witness ==
    /\ pc = "returned"
    /\ ValueCheck(config)
    /\ \E pos \in Positions(result) :
          /\ HasMultiplier(pos)
          /\ LET breakdown == ScoreAt(result, pos)[1].formatting[1].content IN
             /\ "strong" \in DOMAIN breakdown
             /\ breakdown["strong"].score = 1
             /\ breakdown["ul"].score = 0
             /\ breakdown["li"].score = 3
    /\ \E i \in DOMAIN log : log[i].tagName = "strong"

\* the fields of a score other than reward and formatting
OtherFields(score) == IF score # Undefined THEN score[1].relevance ELSE Undefined

\* C7: transform returns the Result it was given and changes nothing but
\* comment scores: the keys, the comment lists and every comment's type and
\* content stay as supplied; of a score only reward and formatting are
\* written, every other field keeps its value.
C7_OnlyRewardAndFormattingChange ==
    /\ DOMAIN result = DOMAIN orig
    /\ \A k \in DOMAIN result :
          /\ (result[k].comments = Undefined) <=> (orig[k].comments = Undefined)
          /\ Len(CommentsOf(result, k)) = Len(CommentsOf(orig, k))
    /\ \A pos \in Positions(orig) :
          /\ CommentAt(result, pos).type = CommentAt(orig, pos).type
          /\ CommentAt(result, pos).content = CommentAt(orig, pos).content
          /\ OtherFields(ScoreAt(result, pos)) = OtherFields(ScoreAt(orig, pos))
          /\ Written(pos) => HasRewardAndFormatting(ScoreAt(result, pos))
    /\ pc = "returned" => ret = Some(result)

C7_Witness ==
    /\ pc = "returned"
    /\ ret = Some(result)
    /\ \E pos \in Positions(result) :
          /\ Written(pos)
          /\ OtherFields(ScoreAt(orig, pos)) = Some(7)
          /\ ScoreAt(result, pos)[1].formatting # ScoreAt(orig, pos)[1].formatting
    /\ \E k \in Keys : result[k].comments = Undefined

\* the score one evaluation gives a comment: a function of the configuration
\* and of the comment alone
ScoreOfComment(comment) == NewScore(comment, _getFormattingScore(comment).formatting)

BeforeCursor(pos) ==
    \E i \in 1..ki :
       /\ KeyOrder[i] = pos[1]
       /\ (i < ki \/ pos[2] < ci)

\* C9: when a comment's content renders to no body, the error leaves
\* transform: nothing is returned, the failing comment and the comments after
\* it keep the scores they had when the call started, and the comments before
\* it keep their newly written scores; a comment that cannot be rendered is
\* never scored and a call that meets one never returns.
C9_RenderFailureAbortsBatch ==
    /\ (pc = "thrown" /\ error = "DomError") =>
          /\ ret = Undefined
          /\ CommentAt(result, <<KeyOrder[ki], ci>>).content.noBody
          /\ \A pos \in Positions(result) :
                IF BeforeCursor(pos)
                THEN ScoreAt(result, pos) = ScoreOfComment(CommentAt(pre, pos))
                ELSE ScoreAt(result, pos) = ScoreAt(pre, pos)
    /\ \A pos \in Positions(result) :
          CommentAt(result, pos).content.noBody =>
             /\ ~Written(pos)
             /\ pc # "returned"

\* a comment scored by the call, then a comment that cannot be rendered
C9_Witness ==
    /\ pc = "thrown"
    /\ error = "DomError"
    /\ ScoreAt(result, <<KeyOrder[ki], ci>>) = ScoreAt(pre, <<KeyOrder[ki], ci>>)
    /\ \E pos \in Positions(result) :
          /\ BeforeCursor(pos)
          /\ ScoreAt(result, pos) # ScoreAt(pre, pos)
          /\ RewardOr0(ScoreAt(result, pos)) > RewardOr0(ScoreAt(pre, pos))

\* the last of the elements that has the tag name
LastWithTag(elements, tagName) ==
    elements[CHOOSE i \in DOMAIN elements :
                /\ ToLowerCase(elements[i].tagName) = tagName
                /\ \A j \in DOMAIN elements :
                      ToLowerCase(elements[j].tagName) = tagName => j <= i]

\* what the classifier records for an element of a comment of the given type
EntryOf(element, commentType) ==
    [symbols |-> _countWords(multipliers[commentType].symbols, element.textContent),
     score |-> IF TagConfigured(commentType, ToLowerCase(element.tagName))
               THEN multipliers[commentType].scores.map[ToLowerCase(element.tagName)]
               ELSE 1]

\* C10 (as stated): the breakdown has exactly one entry per distinct tag name
\* among the root and its descendants.
C10_BreakdownCoversRootAndDescendants ==
    \A pos \in Positions(result) :
       (Written(pos) /\ HasMultiplier(pos)) =>
          DOMAIN ScoreAt(result, pos)[1].formatting[1].content
             = {"body"} \cup DocumentTags(CommentAt(result, pos).content)

\* C10 (amended): the breakdown has exactly one entry per distinct tag name
\* among the descendants of the root, the root itself has none; each entry
\* holds the values of the last element in document order with that tag name,
\* and only these entries make up formattingTotal.
C10_BreakdownHoldsLastDescendantPerTag ==
    \A pos \in Positions(result) :
       (Written(pos) /\ HasMultiplier(pos)) =>
          LET c == CommentAt(result, pos)
              breakdown == c.score[1].formatting[1].content
              elements == DocumentElements(c.content)
          IN /\ DOMAIN breakdown = DocumentTags(c.content)
             /\ "body" \notin DOMAIN breakdown
             /\ \A tagName \in DOMAIN breakdown :
                   breakdown[tagName] = EntryOf(LastWithTag(elements, tagName), c.type)
             /\ (pc = "returned" /\ calls = 1) =>
                   c.score[1].reward[1] = RewardOr0(ScoreAt(orig, pos))
                      + BreakdownTotal([t \in DocumentTags(c.content) |->
                                            EntryOf(LastWithTag(elements, t), c.type)],
                                       multipliers[c.type].formattingMultiplier)

C10_Witness ==
    /\ pc = "returned"
    /\ calls = 1
    /\ \E pos \in Positions(result) :
          /\ Written(pos)
          /\ HasMultiplier(pos)
          /\ LET c == CommentAt(result, pos)
                 elements == DocumentElements(c.content)
             IN \E i, j \in DOMAIN elements :
                   /\ i < j
                   /\ elements[i].tagName = elements[j].tagName
                   /\ EntryOf(elements[i], c.type) # EntryOf(elements[j], c.type)
                   /\ c.score[1].formatting[1].content[ToLowerCase(elements[j].tagName)]
                         = EntryOf(elements[j], c.type)

====
